---- MODULE Spec2Model ----
(***************************************************************************)
(* Model of the AstroZap numerical scripts:                                *)
(*   - class Equation (constructor, computeValue, computeDerivValue,       *)
(*     solve): the quadratic of the zap and its Newton solver;             *)
(*   - computeXykSwapOutput: the constant-product swap simulator.          *)
(* Both work on bn.js arbitrary-precision integers.  TLC's integers are    *)
(* 32 bits wide, so a BN value is modelled as a sign and a little-endian   *)
(* sequence of limbs in radix Base, with the arithmetic of bn.js written   *)
(* out on that representation (add, sub, mul, truncating div, toNumber's   *)
(* 53-bit assertion, toString).                                            *)
(***************************************************************************)
EXTENDS Integers, Sequences, FiniteSets, TLC

(***************************************************************************)
(* BN magnitudes: little-endian limb sequences without a high zero limb;   *)
(* the empty sequence is zero.                                             *)
(***************************************************************************)
Base == 10000

\* Op(x) and Op(x, y) with the arguments evaluated first.  TLC hands an operator
\* its arguments unevaluated and evaluates them where the body uses them, every
\* time it uses them when it evaluates ENABLED; a bound variable holds a value.
Strict1(Op(_), x) == CHOOSE r \in {Op(a) : a \in {x}} : TRUE
Strict2(Op(_, _), x, y) == CHOOSE r \in {Op(a, b) : a \in {x}, b \in {y}} : TRUE

\* the number of limbs of u below its high zero limbs
Top(u) ==
  IF \A k \in 1..Len(u) : u[k] = 0 THEN 0
  ELSE CHOOSE k \in 1..Len(u) : u[k] # 0 /\ \A m \in (k + 1)..Len(u) : u[m] = 0

Strip(u0) ==
  LET Stripped(u) == SubSeq(u, 1, Top(u))
  IN  Strict1(Stripped, u0)

Limb(u, k) == IF k <= Len(u) THEN u[k] ELSE 0

\* -1, 0, 1 as u0 <, =, > v0
MagCmp(u0, v0) ==
  LET Compared(u, v) ==
        IF Len(u) > Len(v) THEN 1
        ELSE IF Len(u) < Len(v) THEN -1
        ELSE LET D == {k \in 1..Len(u) : u[k] # v[k]}
             IN  IF D = {} THEN 0
                 ELSE LET k == CHOOSE j \in D : \A m \in D : m <= j
                      IN  IF u[k] > v[k] THEN 1 ELSE -1
  IN  Strict2(Compared, u0, v0)

\* limb-wise sums, then the carries by look-ahead: position k carries out when
\* some position j <= k overflows and every position between them is Base - 1
MagAdd(u0, v0) ==
  LET Sums(u, v) ==
        LET n == IF Len(u) > Len(v) THEN Len(u) ELSE Len(v)
        IN  [k \in 1..(n + 1) |-> Limb(u, k) + Limb(v, k)]
      Carried(s) ==
        LET carry(k) ==
              \E j \in 1..k : s[j] >= Base /\ \A m \in (j + 1)..k : s[m] = Base - 1
        IN  [k \in 1..Len(s) |-> (s[k] + (IF carry(k - 1) THEN 1 ELSE 0)) % Base]
  IN  Strip(Strict1(Carried, Strict2(Sums, u0, v0)))

\* u0 - v0 for u0 >= v0, the borrows by look-ahead
MagSub(u0, v0) ==
  LET Borrowed(u, v) ==
        LET borrow(k) ==
              \E j \in 1..k :
                 u[j] < Limb(v, j) /\ \A m \in (j + 1)..k : u[m] = Limb(v, m)
        IN  [k \in 1..Len(u) |->
               (u[k] - Limb(v, k) - (IF borrow(k - 1) THEN 1 ELSE 0) + Base) % Base]
  IN  Strip(Strict2(Borrowed, u0, v0))

\* u0 * d0 for a single limb d0: the low and the high halves of the limb products
MagMulSmall(u0, d0) ==
  LET Halves(u, d) ==
        MagAdd([k \in 1..Len(u) |-> (u[k] * d) % Base],
               [k \in 1..(Len(u) + 1) |-> IF k = 1 THEN 0 ELSE (u[k - 1] * d) \div Base])
  IN  Strict2(Halves, u0, d0)

MagShift(u) == IF u = <<>> THEN u ELSE <<0>> \o u

RECURSIVE MagMulAt(_, _, _)
MagMulAt(u, v, k) ==
  IF k > Len(v) THEN <<>>
  ELSE LET Row(rest) == MagAdd(MagMulSmall(u, v[k]), MagShift(rest))
       IN  Strict1(Row, MagMulAt(u, v, k + 1))

MagMul(u, v) == IF u = <<>> THEN <<>> ELSE MagMulAt(u, v, 1)

\* the largest d in lo..hi with v * d <= rem, by bisection
RECURSIVE QuotientLimb(_, _, _, _)
QuotientLimb(rem, v, lo, hi) ==
  IF lo = hi THEN lo
  ELSE LET Try(mid) ==
             IF MagCmp(MagMulSmall(v, mid), rem) <= 0
             THEN QuotientLimb(rem, v, mid, hi)
             ELSE QuotientLimb(rem, v, lo, mid - 1)
       IN  Strict1(Try, (lo + hi + 1) \div 2)

\* long division of the limbs k..Len(u) of u by v # 0: quotient and remainder
RECURSIVE MagDivModAt(_, _, _)
MagDivModAt(u, v, k) ==
  IF k > Len(u) THEN [q |-> <<>>, r |-> <<>>]
  ELSE LET Step(up) ==
             LET Divide(rem) ==
                   LET Subtract(d) ==
                         [q |-> <<d>> \o up.q, r |-> MagSub(rem, MagMulSmall(v, d))]
                   IN  Strict1(Subtract, QuotientLimb(rem, v, 0, Base - 1))
             IN  Strict1(Divide, Strip(<<u[k]>> \o up.r))
       IN  Strict1(Step, MagDivModAt(u, v, k + 1))

MagDiv(u, v) == Strip(MagDivModAt(u, v, 1).q)

(***************************************************************************)
(* BN values: sign and magnitude; zero is never negative.                  *)
(***************************************************************************)
MkBN(negative, mag0) ==
  LET Made(mag) == [negative |-> negative /\ mag # <<>>, mag |-> mag]
  IN  Strict1(Made, mag0)

RECURSIVE MagOfNat(_)
MagOfNat(n) == IF n = 0 THEN <<>> ELSE <<n % Base>> \o MagOfNat(n \div Base)

\* new BN(n) for a JavaScript number n
BN(n) == IF n < 0 THEN MkBN(TRUE, MagOfNat(0 - n)) ELSE MkBN(FALSE, MagOfNat(n))

\* new BN("ddd...") for a string of decimal digits: four digits make a limb
BNFromString(digits) ==
  LET n == Len(digits)
      D(k) == IF k >= 1 THEN digits[k] ELSE 0
  IN  MkBN(FALSE,
           Strip([j \in 1..((n + 3) \div 4) |->
                    D(n - 4 * (j - 1)) + 10 * D(n - 4 * (j - 1) - 1)
                    + 100 * D(n - 4 * (j - 1) - 2) + 1000 * D(n - 4 * (j - 1) - 3)]))

isZero(x) == x.mag = <<>>

neg(x) == MkBN(~x.negative, x.mag)

SignedAdd(x, y) ==
  IF x.negative = y.negative THEN MkBN(x.negative, MagAdd(x.mag, y.mag))
  ELSE IF MagCmp(x.mag, y.mag) >= 0 THEN MkBN(x.negative, MagSub(x.mag, y.mag))
  ELSE MkBN(y.negative, MagSub(y.mag, x.mag))

SignedMul(x, y) == MkBN(x.negative # y.negative, MagMul(x.mag, y.mag))

SignedDiv(x, y) == MkBN(x.negative # y.negative, MagDiv(x.mag, y.mag))

add(x, y) == Strict2(SignedAdd, x, y)

sub(x, y) == add(x, neg(y))

mul(x, y) == Strict2(SignedMul, x, y)

\* x.div(y) for y # 0: the quotient truncated toward zero
div(x, y) == Strict2(SignedDiv, x, y)

\* -1, 0, 1 as x <, =, > y
cmp(x, y) ==
  IF x.negative # y.negative THEN (IF x.negative THEN -1 ELSE 1)
  ELSE IF x.negative THEN MagCmp(y.mag, x.mag)
  ELSE MagCmp(x.mag, y.mag)

lt(x, y)  == cmp(x, y) < 0
lte(x, y) == cmp(x, y) <= 0

isPositive(x) == ~x.negative /\ ~isZero(x)

\* x.toNumber(): bn.js asserts that the magnitude fits the 53 bits of a JavaScript
\* number; below 2^53 the number holds the integer exactly
TwoPow53 == BNFromString(<<9, 0, 0, 7, 1, 9, 9, 2, 5, 4, 7, 4, 0, 9, 9, 2>>)

toNumber(x) ==
  IF MagCmp(x.mag, TwoPow53.mag) < 0 THEN [ok |-> TRUE, num |-> x]
  ELSE [ok |-> FALSE, num |-> MkBN(FALSE, <<>>)]

\* x.toString(): the decimal digits, a leading "-" for a negative value
DigitChar == <<"0", "1", "2", "3", "4", "5", "6", "7", "8", "9">>

toString(x) ==
  LET n == Len(x.mag)
      Printed(D) ==
        LET first == CHOOSE k \in 1..(4 * n) : D[k] # 0 /\ \A m \in 1..(k - 1) : D[m] = 0
        IN  [k \in 1..(4 * n - first + 1) |-> DigitChar[D[first + k - 1] + 1]]
      digits ==
        Strict1(Printed,
                [k \in 1..(4 * n) |->
                   LET limb == x.mag[n - ((k - 1) \div 4)]
                       t    == 3 - ((k - 1) % 4)
                   IN  (limb \div <<1, 10, 100, 1000>>[t + 1]) % 10])
  IN  IF n = 0 THEN <<"0">>
      ELSE IF x.negative THEN <<"-">> \o digits
      ELSE digits

\* the errors bn.js throws: assert(!num.isZero()) in div, and toNumber's assertion
DivisionAssertion == "Assertion failed"
NumberAssertion == "Number can only safely store up to 53 bits"

(***************************************************************************)
(* class Equation                                                          *)
(***************************************************************************)
MAX_ITERATIONS == 32

\* the constructor: a, b, c from the four amounts, the 0.3% fee baked in
Equation(offer_user, offer_pool, ask_user, ask_pool) ==
  LET a  == add(ask_pool, ask_user)
      b1 == mul(mul(offer_pool, a), BN(2))
      b2 == div(mul(mul(ask_pool, add(offer_pool, offer_user)), BN(30)), BN(10000))
  IN  [a |-> a,
       b |-> sub(b1, b2),
       c |-> mul(offer_pool, sub(mul(offer_pool, ask_user), mul(offer_user, ask_pool)))]

computeValue(e, x0) == add(add(mul(mul(e.a, x0), x0), mul(e.b, x0)), e.c)

\* a derivative that leaves out the linear coefficient
computeDerivValue_withoutB(e, x0) == mul(mul(BN(2), e.a), x0)

computeDerivValue(e, x0) == add(mul(mul(BN(2), e.a), x0), e.b)

\* a loop test that lets one more pass through
LoopTest_inclusive(n) == n <= MAX_ITERATIONS

\* the loop test of solve()
LoopTest(n) == n < MAX_ITERATIONS

(***************************************************************************)
(* computeXykSwapOutput                                                     *)
(***************************************************************************)
DECIMAL_FRACTIONAL == BNFromString(<<1, 0, 0, 0, 0, 0, 0, 0, 0, 0, 0, 0, 0, 0, 0, 0, 0, 0, 0>>)

\* a commission with the rate's numerator and denominator exchanged
Commission_inverted(returnAmount) == div(mul(returnAmount, BN(10000)), BN(30))

Commission(returnAmount) == div(mul(returnAmount, BN(30)), BN(10000))

\* the locals of computeXykSwapOutput, for offerDepth + offerAmount # 0
XykSwap(offerAmount, offerDepth, askDepth) ==
  LET cp              == mul(offerDepth, askDepth)
      offerDepthAfter == add(offerDepth, offerAmount)
      askDepthAfter   == div(mul(cp, DECIMAL_FRACTIONAL), offerDepthAfter)
      returnAmount    == div(sub(mul(askDepth, DECIMAL_FRACTIONAL), askDepthAfter),
                             DECIMAL_FRACTIONAL)
      commission      == Commission(returnAmount)
  IN  [cp |-> cp, offerDepthAfter |-> offerDepthAfter, askDepthAfter |-> askDepthAfter,
       returnAmount |-> returnAmount, commission |-> commission,
       returnAmountAfterFee |-> sub(returnAmount, commission)]

(***************************************************************************)
(* The inputs: every amount of a small grid, and the scenarios of the      *)
(* documentation (the worked example, a high-liquidity pool, deposits      *)
(* hundreds of times the reserve).                                         *)
(***************************************************************************)
MaxAmount == 2

Grid == {BN(n) : n \in 0..MaxAmount}

Million == BN(1000000)
Pow18   == DECIMAL_FRACTIONAL
Pow17   == div(Pow18, BN(10))

EquationScenarios ==
  { <<BN(10000), Million, BN(0), Million>>,          \* the worked scenario
    <<BN(0), Million, BN(0), Million>>,
    <<BN(0), Pow18, BN(0), Pow18>>,
    <<BN(666), BN(1), BN(0), BN(1)>>,                \* b = 0
    <<BN(1000), BN(1), BN(0), BN(1)>>,               \* b < 0
    <<BN(700000000), Million, BN(0), Million>>,
    <<BN(1331333223), BN(2000000), BN(0), BN(3)>>,   \* 32 iterations do not settle
    <<BN(105693564), BN(1000000000), BN(0), BN(1000000000)>>,
    <<Pow17, Pow18, BN(0), Pow18>> }                 \* iterates above 2^53

EquationInputs == (Grid \X Grid \X Grid \X Grid) \cup EquationScenarios

SwapAmounts == Grid \cup {BN(4996), BN(10000), Pow18}
SwapDepths  == Grid \cup {Million, Pow18}

(***************************************************************************)
(* The state: the call in progress and its locals.                         *)
(***************************************************************************)
VARIABLES
  pc,          \* "idle", "constructed", "loop", "returned", "thrown", "swapped"
  call,        \* the arguments of the call in progress
  eq,          \* this.a, this.b, this.c
  x, xPrev, i, \* the locals of solve()
  val, derivVal,
  iteration,   \* the iteration number of the last console.log of solve()
  exit,        \* how the loop of solve() ended: "break" or "limit"
  swap,        \* the locals of computeXykSwapOutput
  ret,         \* the string returned
  err,         \* the message of the Error thrown
  remembered   \* what the caller kept of an earlier solve(): its string and its exit

vars == <<pc, call, eq, x, xPrev, i, val, derivVal, iteration, exit, swap, ret, err,
          remembered>>

Zero == BN(0)
NoCall == [fn |-> "none"]
NoEquation == [a |-> Zero, b |-> Zero, c |-> Zero]
NoSwap == [cp |-> Zero, offerDepthAfter |-> Zero, askDepthAfter |-> Zero,
           returnAmount |-> Zero, commission |-> Zero, returnAmountAfterFee |-> Zero]
NoString == <<>>
NoRun == [ret |-> NoString, exit |-> "none"]

Init ==
  /\ pc = "idle"
  /\ call = NoCall
  /\ eq = NoEquation
  /\ x = Zero /\ xPrev = Zero /\ i = 0
  /\ val = Zero /\ derivVal = Zero
  /\ iteration = 0
  /\ exit = "none"
  /\ swap = NoSwap
  /\ ret = NoString
  /\ err = "none"
  /\ remembered = NoRun

\* new Equation(offer_user, offer_pool, ask_user, ask_pool)
NewEquation(offer_user, offer_pool, ask_user, ask_pool) ==
  /\ pc = "idle"
  /\ pc' = "constructed"
  /\ call' = [fn |-> "Equation", offer_user |-> offer_user, offer_pool |-> offer_pool,
              ask_user |-> ask_user, ask_pool |-> ask_pool]
  /\ eq' = Equation(offer_user, offer_pool, ask_user, ask_pool)
  /\ UNCHANGED <<x, xPrev, i, val, derivVal, iteration, exit, swap, ret, err, remembered>>

\* solve() up to the first loop test
SolveBegin ==
  /\ pc = "constructed"
  /\ x' = Zero /\ xPrev' = Zero /\ i' = 0
  /\ IF LoopTest(0)
     THEN pc' = "loop" /\ UNCHANGED <<exit, ret>>
     ELSE pc' = "returned" /\ exit' = "limit" /\ ret' = toString(Zero)
  /\ UNCHANGED <<call, eq, val, derivVal, iteration, swap, err, remembered>>

\* one pass of the loop body of solve(), and what follows it: the break and the
\* return, or i++ and the loop test, and the return when the test fails
SolveIteration ==
  /\ pc = "loop"
  /\ \E v \in {computeValue(eq, x)}, d \in {computeDerivValue(eq, x)} :
       /\ val' = v
       /\ derivVal' = d
       /\ IF isZero(d)
          THEN \* val.div(derivVal) throws
               /\ pc' = "thrown" /\ err' = DivisionAssertion
               /\ UNCHANGED <<x, xPrev, i, iteration, exit, ret>>
          ELSE \E xn \in {sub(xPrev, div(v, d))} :
               /\ x' = xn
               /\ iteration' = i + 1
               /\ IF ~toNumber(xn).ok \/ ~toNumber(xPrev).ok
                  THEN \* x.toNumber() or xPrev.toNumber() throws
                       /\ pc' = "thrown" /\ err' = NumberAssertion
                       /\ UNCHANGED <<xPrev, i, exit, ret>>
                  ELSE IF toNumber(xn).num = toNumber(xPrev).num
                  THEN /\ pc' = "returned" /\ exit' = "break" /\ ret' = toString(xn)
                       /\ UNCHANGED <<xPrev, i, err>>
                  ELSE /\ xPrev' = xn
                       /\ i' = i + 1
                       /\ err' = err
                       /\ IF LoopTest(i + 1)
                          THEN pc' = "loop" /\ UNCHANGED <<exit, ret>>
                          ELSE pc' = "returned" /\ exit' = "limit" /\ ret' = toString(xn)
  /\ UNCHANGED <<call, eq, swap, remembered>>

\* computeXykSwapOutput(offerAmount, offerDepth, askDepth)
ComputeXykSwapOutput(offerAmount, offerDepth, askDepth) ==
  /\ pc = "idle"
  /\ call' = [fn |-> "computeXykSwapOutput", offerAmount |-> offerAmount,
              offerDepth |-> offerDepth, askDepth |-> askDepth]
  /\ IF isZero(add(offerDepth, offerAmount))
     THEN \* cp.mul(DECIMAL_FRACTIONAL).div(offerDepthAfter) throws
          /\ pc' = "thrown" /\ err' = DivisionAssertion
          /\ UNCHANGED <<swap, ret>>
     ELSE /\ pc' = "swapped"
          /\ swap' = XykSwap(offerAmount, offerDepth, askDepth)
          /\ ret' = toString(swap'.returnAmountAfterFee)
          /\ err' = err
  /\ UNCHANGED <<eq, x, xPrev, i, val, derivVal, iteration, exit, remembered>>

\* the call is over and the caller goes on
Finish ==
  /\ pc \in {"returned", "thrown", "swapped"}
  /\ pc' = "idle"
  /\ call' = NoCall
  /\ eq' = NoEquation
  /\ x' = Zero /\ xPrev' = Zero /\ i' = 0
  /\ val' = Zero /\ derivVal' = Zero
  /\ iteration' = 0
  /\ exit' = "none"
  /\ swap' = NoSwap
  /\ ret' = NoString
  /\ err' = "none"
  /\ UNCHANGED remembered

\* the call is over and the caller keeps what solve() returned
FinishAndKeep ==
  /\ pc = "returned"
  /\ call.fn = "Equation"
  /\ remembered' = [ret |-> ret, exit |-> exit]
  /\ pc' = "idle"
  /\ call' = NoCall
  /\ eq' = NoEquation
  /\ x' = Zero /\ xPrev' = Zero /\ i' = 0
  /\ val' = Zero /\ derivVal' = Zero
  /\ iteration' = 0
  /\ exit' = "none"
  /\ swap' = NoSwap
  /\ ret' = NoString
  /\ err' = "none"

Next ==
  \/ \E in \in EquationInputs : NewEquation(in[1], in[2], in[3], in[4])
  \/ SolveBegin
  \/ SolveIteration
  \/ \E offerAmount \in SwapAmounts, offerDepth \in SwapDepths, askDepth \in SwapDepths :
       ComputeXykSwapOutput(offerAmount, offerDepth, askDepth)
  \/ Finish

Spec == Init /\ [][Next]_vars

\* solve() is a synchronous loop: once called it runs until it returns or throws
FairSpec == Spec /\ WF_vars(SolveBegin) /\ WF_vars(SolveIteration)

\* a caller that solves the scenarios one after the other and keeps a result
NextHistory ==
  \/ \E in \in EquationScenarios : NewEquation(in[1], in[2], in[3], in[4])
  \/ SolveBegin
  \/ SolveIteration
  \/ Finish
  \/ FinishAndKeep

SpecHistory == Init /\ [][NextHistory]_vars

(***************************************************************************)
(* The claims.                                                             *)
(***************************************************************************)
IsEquationCall == call.fn = "Equation"
IsSwapCall == call.fn = "computeXykSwapOutput"

PositiveReserves ==
  IsEquationCall /\ isPositive(call.offer_pool) /\ isPositive(call.ask_pool)

SingleAssetDeposit ==
  PositiveReserves /\ isZero(call.ask_user) /\ isPositive(call.offer_user)

NothingDeposited ==
  PositiveReserves /\ isZero(call.ask_user) /\ isZero(call.offer_user)

PositiveDepths ==
  IsSwapCall /\ isPositive(call.offerDepth) /\ isPositive(call.askDepth)

SolveEnded == pc \in {"returned", "thrown"}

One == BN(1)

\* C1: for positive reserves and a single-asset deposit, solve() returns an x with
\* 0 <= x <= offerUser, whatever the ratio of the deposit to the reserve
C1_SwapWithinDeposit ==
  (SingleAssetDeposit /\ pc = "returned")
    => (lte(Zero, x) /\ lte(x, call.offer_user))

\* C2: for positive reserves and a single-asset deposit, the x returned is within one
\* unit of the positive root, f(x-1) < 0 < f(x+1), and in the worked scenario
\* 0 < x < 10000
C2_RootWithinOneUnit ==
  (SingleAssetDeposit /\ pc = "returned")
    => /\ lt(computeValue(eq, sub(x, One)), Zero)
       /\ lt(Zero, computeValue(eq, add(x, One)))
       /\ (call.offer_user = BN(10000) /\ call.offer_pool = Million
             /\ call.ask_pool = Million)
            => (lt(Zero, x) /\ lt(x, BN(10000)))

\* C3: a zero reserve passed to the Equation constructor or to computeXykSwapOutput
\* ends in an InvalidReserve error; no coefficients and no output come of it
C3_InvalidReserve ==
  (\/ IsEquationCall /\ (isZero(call.offer_pool) \/ isZero(call.ask_pool))
   \/ IsSwapCall /\ (isZero(call.offerDepth) \/ isZero(call.askDepth)))
    => (pc = "thrown" /\ err = "InvalidReserve")

\* C4: a derivative of zero ends solve() in an UndefinedDerivative error of its own,
\* not in the division's generic fault
C4_UndefinedDerivative ==
  (IsEquationCall /\ pc = "thrown" /\ isZero(derivVal))
    => err = "UndefinedDerivative"

\* C5: solve() performs at most 32 Newton steps; it returns at the first step whose
\* new iterate equals the previous one, otherwise after the 32nd step; and every
\* solve() that was begun ends
C5_AtMost32Steps ==
  /\ [](iteration <= MAX_ITERATIONS /\ i <= MAX_ITERATIONS)
  /\ [][(pc = "loop" /\ pc' = "loop") => (x' # x /\ iteration' = iteration + 1)]_vars
  /\ [][(pc = "loop" /\ pc' = "returned")
          => \/ x' = x /\ exit' = "break"
             \/ x' # x /\ exit' = "limit" /\ iteration' = MAX_ITERATIONS]_vars
  /\ (pc = "loop" ~> SolveEnded)

C5_Witness == pc = "returned" /\ exit = "limit" /\ iteration = MAX_ITERATIONS /\ x # Zero

\* C6: with iterates above 2^53 the stopping test still compares the iterates exactly
\* and solve() goes on or returns; it does not fail in the comparison
C6_FullPrecisionCompare ==
  (IsEquationCall /\ (~toNumber(x).ok \/ ~toNumber(xPrev).ok))
    => pc \in {"loop", "returned"}

\* C7: for positive depths returnAmountAfterFee does not decrease as offerAmount grows
C7_Monotonic ==
  (pc = "swapped" /\ PositiveDepths)
    => \A m \in SwapAmounts :
         lte(m, call.offerAmount)
           => lte(XykSwap(m, call.offerDepth, call.askDepth).returnAmountAfterFee,
                  swap.returnAmountAfterFee)

C7_Witness ==
  /\ pc = "swapped" /\ PositiveDepths
  /\ \E m \in SwapAmounts :
       /\ isPositive(m)
       /\ lt(m, call.offerAmount)
       /\ lt(Zero, XykSwap(m, call.offerDepth, call.askDepth).returnAmountAfterFee)
       /\ lt(XykSwap(m, call.offerDepth, call.askDepth).returnAmountAfterFee,
             swap.returnAmountAfterFee)

\* C8: what solve() returns tells a run that settled from a run that used up its 32
\* iterations: two runs returning the same thing ended the same way
C8_ReportsConvergence ==
  (pc = "returned" /\ IsEquationCall /\ remembered.ret = ret)
    => remembered.exit = exit

\* C9: with positive reserves and nothing deposited, c = 0 and b > 0, the first step
\* leaves x at 0 and solve() returns 0 after one iteration
C9_NothingDepositedRootZero ==
  NothingDeposited
    => /\ isZero(eq.c) /\ isPositive(eq.b)
       /\ \/ pc = "constructed"
          \/ pc = "loop" /\ iteration = 0
          \/ pc = "returned" /\ iteration = 1 /\ exit = "break" /\ ret = <<"0">>

C9_Witness ==
  NothingDeposited /\ pc = "returned" /\ ret = <<"0">> /\ call.offer_pool = Pow18

\* C10: for positive depths the return amount before the fee stays on the curve:
\* 0 <= returnAmount <= askDepth and
\* (offerDepth + offerAmount) * (askDepth - returnAmount) >= offerDepth * askDepth
C10_WithinCurve ==
  (pc = "swapped" /\ PositiveDepths)
    => /\ lte(Zero, swap.returnAmount)
       /\ lte(swap.returnAmount, call.askDepth)
       /\ lte(mul(call.offerDepth, call.askDepth),
              mul(add(call.offerDepth, call.offerAmount),
                  sub(call.askDepth, swap.returnAmount)))
====
